---------------------------- MODULE Spec2Model ----------------------------
(***************************************************************************)
(* Jelinski-Moranda estimator (src/jelinski_moranda.py): the Newton solver *)
(* solve_B_newton and the derived metrics of compute.                      *)
(*                                                                         *)
(* Python floats are modelled as binary floating point numbers with the    *)
(* exponent range of IEEE-754 binary64 and a mantissa of Precision bits    *)
(* (binary64 has 53): every arithmetic operation is the exact operation    *)
(* followed by one rounding to nearest, ties to even, with gradual         *)
(* underflow, overflow to infinity, and Python's exceptions                *)
(* (ZeroDivisionError on x / 0, OverflowError on an overflowing ** or      *)
(* math.fsum).  A raised exception is carried as a value that every later  *)
(* operation passes on, so that it surfaces at the end of the statement.   *)
(***************************************************************************)
EXTENDS Integers, Sequences, FiniteSets, TLC

----------------------------------------------------------------------------
(* Bounds of the model *)

\* mantissa width of the modelled float format, in bits
Precision == 8

\* longest observation sequence
MaxLen == 2

\* largest maxiter passed to solve_B_newton by a direct caller
MaxIterArg == 2

\* the harmonic sum is added term by term up to this many terms
HarmExact == 12

----------------------------------------------------------------------------
(* The float format *)

\* largest exponent of a finite binary64: values are below 2^(EMax+1)
EMax == 1023

\* smallest exponent of a normal number
EMin == 1 - EMax

\* exponent of the unit of the subnormal numbers
EDen == EMin - Precision + 1

Fin(m, e) == [k |-> "fin", m |-> m, e |-> e]
Zero == Fin(0, 0)
PosInf == [k |-> "inf", m |-> 1, e |-> 0]
NegInf == [k |-> "inf", m |-> -1, e |-> 0]
NaN == [k |-> "nan", m |-> 0, e |-> 0]
Raise(exc) == [k |-> exc, m |-> 0, e |-> 0]

IsFin(a) == a.k = "fin"
IsInf(a) == a.k = "inf"
IsNaN(a) == a.k = "nan"
IsRaise(a) == a.k \notin {"fin", "inf", "nan"}

Abs(i) == IF i < 0 THEN -i ELSE i
Sign(i) == IF i < 0 THEN -1 ELSE IF i > 0 THEN 1 ELSE 0

RECURSIVE BitLen(_)
BitLen(N) == IF N = 0 THEN 0 ELSE 1 + BitLen(N \div 2)

\* the float m * 2^e in canonical form (m has at most Precision bits)
Norm(m, e) ==
    IF m = 0 THEN Zero
    ELSE IF m = 2 ^ Precision THEN
        (IF e + 1 + Precision - 1 > EMax THEN PosInf ELSE Fin(2 ^ (Precision - 1), e + 1))
    ELSE IF e + BitLen(m) - 1 > EMax THEN PosInf
    ELSE Fin(m, e)

\* round to nearest, ties to even: the float nearest to (N + d) * 2^e, N >= 0,
\* where 0 < d < 1 when sticky and d = 0 otherwise
RoundPos(N, e, sticky) ==
    LET bl == BitLen(N)
        sh == IF e + (bl - Precision) < EDen THEN EDen - e ELSE bl - Precision
    IN  IF N = 0 THEN Zero
        ELSE IF sh <= 0 THEN Norm(N * 2 ^ (-sh), e + sh)
        ELSE IF sh > bl + 1 THEN Zero
        ELSE LET q == N \div 2 ^ sh
                 r == N % 2 ^ sh
                 half == 2 ^ (sh - 1)
                 up == r > half \/ (r = half /\ (sticky \/ q % 2 = 1))
             IN  Norm(IF up THEN q + 1 ELSE q, e + sh)

FNeg(a) == IF IsRaise(a) \/ IsNaN(a) THEN a ELSE [a EXCEPT !.m = -a.m]
FAbs(a) == IF IsRaise(a) \/ IsNaN(a) THEN a ELSE [a EXCEPT !.m = Abs(a.m)]

\* the float nearest to N * 2^e for a signed integer N
Round(N, e, sticky) ==
    IF N < 0 THEN FNeg(RoundPos(-N, e, sticky)) ELSE RoundPos(N, e, sticky)

IntToFloat(i) == Round(i, 0, FALSE)

\* order of two finite floats: -1, 0 or 1
CmpFin(a, b) ==
    LET sa == Sign(a.m)
        sb == Sign(b.m)
        ta == BitLen(Abs(a.m)) + a.e
        tb == BitLen(Abs(b.m)) + b.e
        lo == IF a.e < b.e THEN a.e ELSE b.e
    IN  IF sa # sb THEN (IF sa < sb THEN -1 ELSE 1)
        ELSE IF sa = 0 THEN 0
        ELSE IF ta # tb THEN (IF ta < tb THEN -sa ELSE sa)
        ELSE Sign(a.m * 2 ^ (a.e - lo) - b.m * 2 ^ (b.e - lo))

\* a < b and a <= b on floats (False when either is a NaN)
FLt(a, b) ==
    IF IsNaN(a) \/ IsNaN(b) THEN FALSE
    ELSE IF IsInf(a) \/ IsInf(b) THEN
        (IF IsInf(a) /\ IsInf(b) THEN a.m < b.m
         ELSE IF IsInf(a) THEN a.m < 0 ELSE b.m > 0)
    ELSE CmpFin(a, b) < 0

FLe(a, b) ==
    IF IsNaN(a) \/ IsNaN(b) THEN FALSE ELSE ~FLt(b, a)

\* the exception or NaN that an operation on a and b passes on, if any
Passes(a, b) == IsRaise(a) \/ IsRaise(b) \/ IsNaN(a) \/ IsNaN(b)
Passed(a, b) ==
    IF IsRaise(a) THEN a ELSE IF IsRaise(b) THEN b ELSE NaN

\* a + b
FAdd(a, b) ==
    IF Passes(a, b) THEN Passed(a, b)
    ELSE IF IsInf(a) \/ IsInf(b) THEN
        (IF IsInf(a) /\ IsInf(b) THEN (IF a.m = b.m THEN a ELSE NaN)
         ELSE IF IsInf(a) THEN a ELSE b)
    ELSE IF a.m = 0 THEN b
    ELSE IF b.m = 0 THEN a
    ELSE LET hi == IF a.e >= b.e THEN a ELSE b
             lw == IF a.e >= b.e THEN b ELSE a
             d == hi.e - lw.e
         IN  IF d <= Precision + 3
             THEN Round(hi.m * 2 ^ d + lw.m, lw.e, FALSE)
             ELSE \* lw is below an eighth of hi's last place
                  IF Sign(hi.m) = Sign(lw.m)
                  THEN Round(4 * hi.m, hi.e - 2, TRUE)
                  ELSE Round(4 * hi.m - Sign(hi.m), hi.e - 2, TRUE)

\* a - b
FSub(a, b) == FAdd(a, FNeg(b))

\* a * b
FMul(a, b) ==
    IF Passes(a, b) THEN Passed(a, b)
    ELSE IF IsInf(a) \/ IsInf(b) THEN
        (IF a.m = 0 \/ b.m = 0 THEN NaN
         ELSE IF Sign(a.m) = Sign(b.m) THEN PosInf ELSE NegInf)
    ELSE Round(a.m * b.m, a.e + b.e, FALSE)

\* a / b: ZeroDivisionError when b is zero
FDiv(a, b) ==
    IF IsRaise(a) THEN a
    ELSE IF IsRaise(b) THEN b
    ELSE IF IsFin(b) /\ b.m = 0 THEN Raise("ZeroDivisionError")
    ELSE IF IsNaN(a) \/ IsNaN(b) THEN NaN
    ELSE IF IsInf(a) THEN
        (IF IsInf(b) THEN NaN
         ELSE IF Sign(a.m) = Sign(b.m) THEN PosInf ELSE NegInf)
    ELSE IF IsInf(b) \/ a.m = 0 THEN Zero
    ELSE LET sh == 2 * Precision + 2 - BitLen(Abs(a.m))
             num == Abs(a.m) * 2 ^ sh
             q == num \div Abs(b.m)
             r == num % Abs(b.m)
             s == Sign(a.m) * Sign(b.m)
         IN  Round(s * q, a.e - sh - b.e, r # 0)

\* a ** 2: OverflowError when the square overflows
FSquare(a) ==
    LET p == FMul(a, a)
    IN  IF IsFin(a) /\ IsInf(p) THEN Raise("OverflowError") ELSE p

\* math.fsum: the exact sum of the terms, rounded once; OverflowError when
\* the sum of finite terms overflows
RECURSIVE MinExp(_, _)
MinExp(xs, i) ==
    IF i > Len(xs) THEN EMax
    ELSE LET rest == MinExp(xs, i + 1)
         IN  IF xs[i].m # 0 /\ xs[i].e < rest THEN xs[i].e ELSE rest

RECURSIVE SumUnits(_, _, _)
SumUnits(xs, i, u) ==
    IF i > Len(xs) THEN 0
    ELSE (IF xs[i].m = 0 THEN 0 ELSE xs[i].m * 2 ^ (xs[i].e - u)) + SumUnits(xs, i + 1, u)

RECURSIVE FirstNotFin(_, _)
FirstNotFin(xs, i) ==
    IF i > Len(xs) THEN 0
    ELSE IF ~IsFin(xs[i]) THEN i ELSE FirstNotFin(xs, i + 1)

FSum(xs) ==
    LET bad == FirstNotFin(xs, 1)
        u == MinExp(xs, 1)
        r == Round(SumUnits(xs, 1, u), u, FALSE)
    IN  IF \E i \in 1..Len(xs) : IsRaise(xs[i])
            THEN xs[CHOOSE i \in 1..Len(xs) : IsRaise(xs[i]) /\ \A j \in 1..(i-1) : ~IsRaise(xs[j])]
        ELSE IF \E i \in 1..Len(xs) : IsNaN(xs[i]) THEN NaN
        ELSE IF bad # 0 THEN
            (IF \E i, j \in 1..Len(xs) : IsInf(xs[i]) /\ IsInf(xs[j]) /\ xs[i].m # xs[j].m
             THEN Raise("ValueError") ELSE xs[bad])
        ELSE IF IsInf(r) THEN Raise("OverflowError") ELSE r


\* a decimal literal 1e-k: 10^-k to 27 bits, rounded to the format
RECURSIVE TenthPow(_)
TenthPow(k) ==
    IF k = 0 THEN <<2 ^ 26, -26>>
    ELSE LET p == TenthPow(k - 1)
             q == (p[1] * 16) \div 10
         IN  IF q >= 2 ^ 27 THEN <<q \div 2, p[2] - 3>> ELSE <<q, p[2] - 4>>

Literal(k) == Round(TenthPow(k)[1], TenthPow(k)[2], TRUE)

One == IntToFloat(1)
Two == IntToFloat(2)

----------------------------------------------------------------------------
(* solve_B_newton *)

\* the default arguments of solve_B_newton
tol == Literal(10)
DefaultMaxIter == 200

\* the thresholds of the derivative clamp and of the step-size test
DerivFloor == Literal(16)
StepTol == Literal(12)

\* Sx = math.fsum(X)
SumX(X) == FSum(X)

\* denom = B - i + 1
Denom(B, i) == FAdd(FSub(B, IntToFloat(i)), One)

\* the loop of f_and_s2: s1 and s2 after the first i terms
RECURSIVE S1Loop(_, _, _)
S1Loop(X, B, i) ==
    IF i = 0 THEN Zero ELSE FAdd(S1Loop(X, B, i - 1), FDiv(One, Denom(B, i)))

RECURSIVE S2Loop(_, _, _)
S2Loop(X, B, i) ==
    IF i = 0 THEN Zero ELSE FAdd(S2Loop(X, B, i - 1), FMul(Denom(B, i), X[i]))

\* f(B) and the weighted sum s2
f_and_s2(X, B) ==
    LET n == Len(X)
        s1 == S1Loop(X, B, n)
        s2 == S2Loop(X, B, n)
    IN  [val |-> FSub(s1, FDiv(FMul(IntToFloat(n), SumX(X)), s2)), s2 |-> s2]

\* a faulty fprime, with Sx in the place of Sx ** 2: it loses the invariance of
\* f'(B) under scaling and is what the scaling property is tested against
fprimeUnsquared(X, B, s2) ==
    LET n == Len(X)
        s1 == FSum([i \in 1..n |-> FDiv(One, FSquare(Denom(B, i)))])
    IN  FAdd(FNeg(s1), FDiv(FMul(IntToFloat(n), SumX(X)), FSquare(s2)))

\* f'(B)
fprime(X, B, s2) ==
    LET n == Len(X)
        s1 == FSum([i \in 1..n |-> FDiv(One, FSquare(Denom(B, i)))])
    IN  FAdd(FNeg(s1), FDiv(FMul(IntToFloat(n), FSquare(SumX(X))), FSquare(s2)))

\* abs(val) < tol
ResidualConverged(val) == FLt(FAbs(val), tol)

\* if abs(deriv) < 1e-16: deriv = 1e-16
Clamp(deriv) == IF FLt(FAbs(deriv), DerivFloor) THEN DerivFloor ELSE deriv

\* B_new = B - val / deriv
NewtonCandidate(B, val, deriv) == FSub(B, FDiv(val, deriv))

\* if B_new <= n: B_new = (B + n + 1.0) / 2.0
DomainGuard(B, cand, n) ==
    IF FLe(cand, IntToFloat(n))
    THEN FDiv(FAdd(FAdd(B, IntToFloat(n)), One), Two)
    ELSE cand

\* a faulty step-size test without the abs, which takes every step downwards
\* for a small one: what the stopping criteria are tested against
StepConvergedSigned(B, B_new) == FLt(FSub(B_new, B), StepTol)

\* abs(B_new - B) < 1e-12
StepConverged(B, B_new) == FLt(FAbs(FSub(B_new, B)), StepTol)

\* a faulty initial guess on the boundary, B = n: what the bound B_hat > n is
\* tested against
InitialGuessAtN(n) == IntToFloat(n)

\* B = n + 2.0
InitialGuess(n) == FAdd(IntToFloat(n), Two)

\* one pass through the body of the for loop, from the current B: how it ends
\* (out: "tol" and "step" return, "cont" goes on, "raise" raises exc) and the
\* values it computed.  The statements follow each other as in the source.
IterRecord(out, exc, val, fp, deriv, cand, B_new) ==
    [out |-> out, exc |-> exc, val |-> val, fp |-> fp, deriv |-> deriv, cand |-> cand,
     B_new |-> B_new]

\* if abs(B_new - B) < 1e-12: return B_new, it, True; else B = B_new
IterStepTest(B, val, fp, deriv, cand, B_new) ==
    IterRecord(IF StepConverged(B, B_new) THEN "step" ELSE "cont", "", val, fp, deriv, cand, B_new)

IterGuard(X, B, val, fp, deriv, cand) ==
    IterStepTest(B, val, fp, deriv, cand, DomainGuard(B, cand, Len(X)))

IterUpdate(X, B, val, fp, deriv) ==
    IterGuard(X, B, val, fp, deriv, NewtonCandidate(B, val, deriv))

IterDeriv(X, B, val, fp) ==
    IF IsRaise(fp) THEN IterRecord("raise", fp.k, val, fp, NaN, NaN, B)
    ELSE IterUpdate(X, B, val, fp, Clamp(fp))

IterResidual(X, B, fs) ==
    IF IsRaise(fs.val) THEN IterRecord("raise", fs.val.k, fs.val, NaN, NaN, NaN, B)
    ELSE IF ResidualConverged(fs.val) THEN IterRecord("tol", "", fs.val, NaN, NaN, NaN, B)
    ELSE IterDeriv(X, B, fs.val, fprime(X, B, fs.s2))

Iteration(X, B) == IterResidual(X, B, f_and_s2(X, B))

\* the for loop from iteration it + 1 on: (B, iterations, converged) or the exception
RECURSIVE NewtonLoop(_, _, _, _)
NewtonLoop(X, B, it, maxiter) ==
    IF it >= maxiter THEN [exc |-> "", B |-> B, iterations |-> maxiter, converged |-> FALSE]
    ELSE LET r == Iteration(X, B)
         IN  IF r.out = "raise" THEN [exc |-> r.exc, B |-> B, iterations |-> it + 1, converged |-> FALSE]
             ELSE IF r.out \in {"tol", "step"} THEN
                 [exc |-> "", B |-> r.B_new, iterations |-> it + 1, converged |-> TRUE]
             ELSE NewtonLoop(X, r.B_new, it + 1, maxiter)

solve_B_newton(X, maxiter) ==
    IF IsRaise(SumX(X)) THEN [exc |-> SumX(X).k, B |-> Zero, iterations |-> 0, converged |-> FALSE]
    ELSE NewtonLoop(X, InitialGuess(Len(X)), 0, maxiter)

----------------------------------------------------------------------------
(* compute: the derived metrics *)

\* math.log, computed in the format to within a few units in the last place:
\* x = y * 2^t with 1 <= y < 2, log(x) = t * log(2) + 2 * atanh((y - 1) / (y + 1));
\* ValueError when x <= 0
Ln2 == Round(93032639, -27, TRUE)

RECURSIVE AtanhSeries(_, _)
AtanhSeries(w, j) ==
    IF j > 11 THEN Zero
    ELSE FAdd(FDiv(One, IntToFloat(j)), FMul(w, AtanhSeries(w, j + 2)))

FLog(x) ==
    IF IsRaise(x) \/ IsNaN(x) THEN x
    ELSE IF IsInf(x) THEN (IF x.m > 0 THEN x ELSE Raise("ValueError"))
    ELSE IF x.m <= 0 THEN Raise("ValueError")
    ELSE LET t == BitLen(x.m) + x.e - 1
             y == Fin(x.m * 2 ^ (Precision - BitLen(x.m)), 1 - Precision)
             z == FDiv(FSub(y, One), FAdd(y, One))
             lny == FMul(FMul(Two, z), AtanhSeries(FMul(z, z), 1))
         IN  FAdd(FMul(IntToFloat(t), Ln2), lny)

\* int(a) of a positive finite float below 2^30
IntOf(a) ==
    IF a.e >= 0 THEN a.m * 2 ^ a.e
    ELSE IF -a.e > 30 THEN 0
    ELSE a.m \div 2 ^ (-a.e)

\* H_m = math.fsum(1.0 / k for k in range(1, int(remaining) + 1)), for remaining > 0.
\* Up to HarmExact terms the terms are added as the code adds them; a longer sum
\* is taken from its expansion log(m) + gamma + 1/(2m).  OverflowError for int(inf).
EulerGamma == Round(77472172, -27, TRUE)

HarmonicSum(remaining) ==
    IF IsInf(remaining) THEN Raise("OverflowError")
    ELSE IF FLt(remaining, IntToFloat(HarmExact + 1)) THEN
        FSum([k \in 1..IntOf(remaining) |-> FDiv(One, IntToFloat(k))])
    ELSE LET m == IF remaining.e >= 0 THEN remaining
                  ELSE IntToFloat(IntOf(remaining))
         IN  FAdd(FAdd(FLog(m), EulerGamma), FDiv(One, FMul(Two, m)))

\* max(a, b) of Python: b when b > a, else a
FMax(a, b) ==
    IF IsRaise(a) THEN a ELSE IF IsRaise(b) THEN b
    ELSE IF FLt(a, b) THEN b ELSE a

\* a faulty weighted sum with the factors i - B_hat - 1, the operands of the
\* subtraction exchanged: what the sign of K_hat is tested against
KDenomReversed(X, B_hat) ==
    FSum([i \in 1..Len(X) |-> FMul(FSub(FSub(IntToFloat(i), B_hat), One), X[i])])

\* denom = math.fsum((B_hat - i + 1) * Xi for i, Xi in enumerate(X, start=1))
KDenom(X, B_hat) == FSum([i \in 1..Len(X) |-> FMul(Denom(B_hat, i), X[i])])

\* K_hat = n / denom
KHat(X, B_hat) == FDiv(IntToFloat(Len(X)), KDenom(X, B_hat))

\* remaining = B_hat - n
Remaining(X, B_hat) == FSub(B_hat, IntToFloat(Len(X)))

\* X_next = math.inf if remaining <= 0 else 1.0 / (K_hat * remaining)
XNext(K_hat, remaining) ==
    IF FLe(remaining, Zero) THEN PosInf ELSE FDiv(One, FMul(K_hat, remaining))

\* a faulty time_to_finish, the harmonic sum alone over K_hat: what the part of
\* the logarithmic term is tested against
TimeToFinishHarmonic(X, B_hat, K_hat, remaining) ==
    IF FLt(Zero, remaining) THEN FDiv(HarmonicSum(remaining), K_hat) ELSE Zero

\* time_to_finish: max(H_m, log(B_hat / (B_hat - n))) / K_hat when remaining > 0
TimeToFinish(X, B_hat, K_hat, remaining) ==
    IF FLt(Zero, remaining)
    THEN LET H_m == HarmonicSum(remaining)
             lg == FLog(FDiv(B_hat, FSub(B_hat, IntToFloat(Len(X)))))
         IN  FDiv(FMax(H_m, lg), K_hat)
    ELSE Zero

\* the first exception raised among the statements computing the values vs
FirstRaise(vs) ==
    IF \E i \in 1..Len(vs) : IsRaise(vs[i])
    THEN vs[CHOOSE i \in 1..Len(vs) : IsRaise(vs[i]) /\ \A j \in 1..(i - 1) : ~IsRaise(vs[j])].k
    ELSE ""

\* the body of compute after the call of solve_B_newton returned ret
ComputeResult(X, ret) ==
    LET K_hat == KHat(X, ret.B)
        remaining == Remaining(X, ret.B)
        X_next == XNext(K_hat, remaining)
        time_to_finish == TimeToFinish(X, ret.B, K_hat, remaining)
    IN  [exc |-> FirstRaise(<<K_hat, X_next, time_to_finish>>),
         n |-> Len(X),
         B_hat |-> ret.B,
         K_hat |-> K_hat,
         X_next |-> X_next,
         time_to_finish |-> time_to_finish,
         iterations |-> ret.iterations,
         converged |-> ret.converged,
         remaining |-> remaining]

\* compute(X): the result record, or the exception in exc
compute(X) ==
    LET ret == solve_B_newton(X, DefaultMaxIter)
    IN  IF ret.exc # "" THEN [exc |-> ret.exc] ELSE ComputeResult(X, ret)

----------------------------------------------------------------------------
(* The calls of the estimator *)

VARIABLES
    X0,        \* the intervals before scaling, as integers
    scale,     \* the factor every interval is multiplied by
    X,         \* the argument X: the observed intervals
    entry,     \* the function called: "compute" or "solve_B_newton"
    maxiter,   \* the argument maxiter of solve_B_newton
    pc,        \* "call", "loop", "returned", "done" or "raised"
    it,        \* the loop variable it (0 before the first iteration)
    B,         \* the local B of solve_B_newton
    last,      \* the values computed by the latest iteration
    ret,       \* the tuple returned by solve_B_newton
    result,    \* the dict returned by compute
    exc        \* the exception raised, "" when none

\* a call of compute_all of lab_5.py
VARIABLES
    args,      \* the arguments of compute_all
    lab_pc,    \* the statement compute_all is at; "idle", "done" or "raised"
    loc,       \* the local variables of compute_all assigned so far
    lab_exc    \* the exception raised by compute_all, "" when none

labvars == <<args, lab_pc, loc, lab_exc>>

vars == <<X0, scale, X, entry, maxiter, pc, it, B, last, ret, result, exc, args, lab_pc, loc,
          lab_exc>>

NoArgs == [Q |-> 0, N |-> 0, Tv_samples |-> <<>>, T_dopV |-> Zero, Tpi_samples |-> <<>>,
           T_dopp |-> Zero, P_baz |-> Zero, metric_weights |-> <<>>]
NoLocals == [n0401 |-> NaN, tv_avg |-> NaN, n0501 |-> NaN, n0502_avg |-> NaN,
             absolute_criterion |-> NaN, quality_factor |-> NaN]

\* no call of compute_all is under way
LabIdle == args = NoArgs /\ lab_pc = "idle" /\ loc = NoLocals /\ lab_exc = ""

\* interval values before scaling; zero and the negative ones are not valid intervals
Vals == {-10, 0, 2, 3, 4, 13}

\* the scale factors: 1, 2, 3, 2^300, 2^600 and the smallest positive float
Scales == {One, Two, IntToFloat(3), Fin(2 ^ (Precision - 1), 300 - Precision + 1),
           Fin(2 ^ (Precision - 1), 600 - Precision + 1), Fin(1, EDen)}

Inputs == UNION {[1..len -> Vals] : len \in 0..MaxLen}

\* compute calls solve_B_newton(X) with the default maxiter
Calls == {<<"compute", DefaultMaxIter>>} \cup {<<"solve_B_newton", k>> : k \in 1..MaxIterArg}

NoIteration ==
    [out |-> "none", exc |-> "", B |-> Zero, val |-> NaN, fp |-> NaN, deriv |-> NaN,
     cand |-> NaN, B_new |-> Zero]
NoReturn == [B |-> Zero, iterations |-> 0, converged |-> FALSE]
NoResult == [exc |-> ""]

Init ==
    /\ X0 \in Inputs
    /\ scale \in Scales
    /\ X = [i \in 1..Len(X0) |-> FMul(IntToFloat(X0[i]), scale)]
    /\ \E c \in Calls : entry = c[1] /\ maxiter = c[2]
    /\ pc = "call"
    /\ it = 0
    /\ B = Zero
    /\ last = NoIteration
    /\ ret = NoReturn
    /\ result = NoResult
    /\ exc = ""
    /\ LabIdle

\* solve_B_newton up to the for statement: n, Sx, data and the initial B
Enter ==
    /\ pc = "call"
    /\ IF IsRaise(SumX(X))
       THEN pc' = "raised" /\ exc' = SumX(X).k /\ B' = B
       ELSE pc' = "loop" /\ exc' = exc /\ B' = InitialGuess(Len(X))
    /\ UNCHANGED <<X0, scale, X, entry, maxiter, it, last, ret, result>>
    /\ UNCHANGED labvars

\* one iteration of the for loop, r being what the body computes from B
IterateTo(r) ==
    /\ it' = it + 1
    /\ last' = [out |-> r.out, exc |-> r.exc, B |-> B, val |-> r.val, fp |-> r.fp,
                deriv |-> r.deriv, cand |-> r.cand, B_new |-> r.B_new]
    /\ IF r.out = "raise"
       THEN pc' = "raised" /\ exc' = r.exc /\ B' = B /\ ret' = ret
       ELSE IF r.out \in {"tol", "step"}
       THEN /\ pc' = "returned"
            /\ ret' = [B |-> r.B_new, iterations |-> it + 1, converged |-> TRUE]
            /\ B' = B /\ exc' = exc
       ELSE pc' = "loop" /\ B' = r.B_new /\ ret' = ret /\ exc' = exc

Iterate ==
    /\ pc = "loop"
    /\ it < maxiter
    /\ IterateTo(Iteration(X, B))
    /\ UNCHANGED <<X0, scale, X, entry, maxiter, result>>
    /\ UNCHANGED labvars

\* a faulty return after the loop, reporting one iteration too many: what the
\* returned tuple is tested against
ExhaustedReturnOneMore(b, m) == [B |-> b, iterations |-> m + 1, converged |-> FALSE]

\* return B, maxiter, False
ExhaustedReturn(b, m) == [B |-> b, iterations |-> m, converged |-> FALSE]

\* the for loop ends without a return from its body
Exhausted ==
    /\ pc = "loop"
    /\ it >= maxiter
    /\ pc' = "returned"
    /\ ret' = ExhaustedReturn(B, maxiter)
    /\ UNCHANGED <<X0, scale, X, entry, maxiter, it, B, last, result, exc>>
    /\ UNCHANGED labvars

\* compute after solve_B_newton returned: the derived metrics and the dict res
DeriveTo(res) ==
    IF res.exc # ""
    THEN pc' = "raised" /\ exc' = res.exc /\ result' = result
    ELSE pc' = "done" /\ exc' = exc /\ result' = res

Derive ==
    /\ pc = "returned"
    /\ entry = "compute"
    /\ DeriveTo(ComputeResult(X, [exc |-> "", B |-> ret.B, iterations |-> ret.iterations,
                                  converged |-> ret.converged]))
    /\ UNCHANGED <<X0, scale, X, entry, maxiter, it, B, last, ret>>
    /\ UNCHANGED labvars

Next == Enter \/ Iterate \/ Exhausted \/ Derive

Spec == Init /\ [][Next]_vars

----------------------------------------------------------------------------
(* lab_5.py: the reliability scores of compute_all *)

\* min(a, b) of Python: b when b < a, else a
FMin(a, b) ==
    IF IsRaise(a) THEN a ELSE IF IsRaise(b) THEN b
    ELSE IF FLt(b, a) THEN b ELSE a

\* float(statistics.mean(xs)) of a non-empty list of finite floats: the exact
\* sum divided by the length, rounded once
MeanOf(xs) ==
    LET u == MinExp(xs, 1)
        S == SumUnits(xs, 1, u)
        sh == 2 * Precision + 2
        num == Abs(S) * 2 ^ sh
    IN  Round(Sign(S) * (num \div Len(xs)), u - sh, num % Len(xs) # 0)

\* sum(xs): the floats added from the left, starting from 0
RECURSIVE SumLoop(_, _)
SumLoop(xs, i) == IF i = 0 THEN Zero ELSE FAdd(SumLoop(xs, i - 1), xs[i])

h0401_prob_no_failure(Q, N) ==
    IF N <= 0 THEN Raise("ValueError")
    ELSE IF Q < 0 \/ Q > N THEN Raise("ValueError")
    ELSE FSub(One, FDiv(IntToFloat(Q), IntToFloat(N)))

tv_mean(Tv_samples) ==
    IF Len(Tv_samples) = 0 THEN Raise("ValueError") ELSE MeanOf(Tv_samples)

h0501_restore_time_score(Tv_avg, T_dopV) ==
    IF FLe(T_dopV, Zero) \/ FLe(Tv_avg, Zero) THEN Raise("ValueError")
    ELSE FMin(One, FDiv(T_dopV, Tv_avg))

\* the list of scores, or <<the exception>>
h0502_transform_time_scores(Tpi_samples, T_dopp) ==
    IF FLe(T_dopp, Zero) THEN <<Raise("ValueError")>>
    ELSE IF Len(Tpi_samples) = 0 THEN <<Raise("ValueError")>>
    ELSE [i \in 1..Len(Tpi_samples) |->
             FMin(One, FDiv(T_dopp, FMax(Literal(12), Tpi_samples[i])))]

average(values) ==
    IF Len(values) = 0 THEN Raise("ValueError")
    ELSE IF IsRaise(values[1]) THEN values[1]
    ELSE MeanOf(values)

metric_score(oe_values) == average(oe_values)

\* weights = <<>> stands for None
weighted_average(values, weights) ==
    IF Len(values) = 0 THEN Raise("ValueError")
    ELSE IF weights = <<>> THEN average(values)
    ELSE IF Len(weights) # Len(values) THEN Raise("ValueError")
    ELSE IF FLe(SumLoop(weights, Len(weights)), Zero) THEN Raise("ValueError")
    ELSE FDiv(SumLoop([i \in 1..Len(values) |-> FMul(values[i], weights[i])], Len(values)),
              SumLoop(weights, Len(weights)))

\* the float literals 0.5 and 0.94
Half == FDiv(One, Two)
PBazDefault == FDiv(IntToFloat(94), IntToFloat(100))

\* w4 and w5 of compute_all: <<>> stands for metric_weights = None, a pair for
\* the dict {"4": w4, "5": w5}; <<the exception>> when their sum is not positive
MetricWeights(metric_weights) ==
    IF metric_weights = <<>> THEN <<Half, Half>>
    ELSE IF FLe(FAdd(metric_weights[1], metric_weights[2]), Zero)
    THEN <<Raise("ValueError")>>
    ELSE <<FDiv(metric_weights[1], FAdd(metric_weights[1], metric_weights[2])),
           FDiv(metric_weights[2], FAdd(metric_weights[1], metric_weights[2]))>>

\* absolute_criterion from the three scores and the normalised weights w
AbsoluteWith(n0401, n0501, n0502_avg, w) ==
    IF IsRaise(w[1]) THEN w[1]
    ELSE weighted_average(<<metric_score(<<n0401>>), metric_score(<<n0501, n0502_avg>>)>>, w)

AbsoluteCriterion(n0401, n0501, n0502_avg, metric_weights) ==
    AbsoluteWith(n0401, n0501, n0502_avg, MetricWeights(metric_weights))

\* relative_criterion = quality_factor
QualityFactor(absolute_criterion, P_baz) ==
    IF FLe(P_baz, Zero) THEN Raise("ValueError") ELSE FDiv(absolute_criterion, P_baz)

\* the arguments of the calls of compute_all
LabCounts == 0..2
LabSamples == UNION {[1..len -> {One, IntToFloat(3)}] : len \in 0..MaxLen}
LabLimits == {Zero, Two}
LabBases == {Zero, PBazDefault}
LabWeights == {<<>>, <<Two, FNeg(One)>>, <<Zero, Zero>>}

LabArgs ==
    [Q : LabCounts, N : LabCounts, Tv_samples : LabSamples, T_dopV : LabLimits,
     Tpi_samples : LabSamples, T_dopp : LabLimits, P_baz : LabBases,
     metric_weights : LabWeights]

\* a call of compute_all; no call of the estimator is under way
InitLab ==
    /\ X0 = <<>> /\ scale = One /\ X = <<>>
    /\ entry = "none" /\ maxiter = DefaultMaxIter
    /\ pc = "idle" /\ it = 0 /\ B = Zero
    /\ last = NoIteration /\ ret = NoReturn /\ result = NoResult /\ exc = ""
    /\ args \in LabArgs
    /\ lab_pc = "h0401"
    /\ loc = NoLocals
    /\ lab_exc = ""

\* a statement of compute_all assigned v to the local variable name, or raised
LabAssign(name, v, next) ==
    IF IsRaise(v)
    THEN lab_pc' = "raised" /\ lab_exc' = v.k /\ loc' = loc
    ELSE lab_pc' = next /\ lab_exc' = lab_exc /\ loc' = [loc EXCEPT ![name] = v]

\* n0401 = h0401_prob_no_failure(Q, N)
StepH0401 ==
    /\ lab_pc = "h0401"
    /\ LabAssign("n0401", h0401_prob_no_failure(args.Q, args.N), "tv_mean")
    /\ UNCHANGED <<X0, scale, X, entry, maxiter, pc, it, B, last, ret, result, exc, args>>

\* tv_avg = tv_mean(Tv_samples)
StepTvMean ==
    /\ lab_pc = "tv_mean"
    /\ LabAssign("tv_avg", tv_mean(args.Tv_samples), "h0501")
    /\ UNCHANGED <<X0, scale, X, entry, maxiter, pc, it, B, last, ret, result, exc, args>>

\* n0501 = h0501_restore_time_score(tv_avg, T_dopV)
StepH0501 ==
    /\ lab_pc = "h0501"
    /\ LabAssign("n0501", h0501_restore_time_score(loc.tv_avg, args.T_dopV), "h0502")
    /\ UNCHANGED <<X0, scale, X, entry, maxiter, pc, it, B, last, ret, result, exc, args>>

\* n0502_list = h0502_transform_time_scores(...); n0502_avg = average(n0502_list)
StepH0502 ==
    /\ lab_pc = "h0502"
    /\ LabAssign("n0502_avg",
                 average(h0502_transform_time_scores(args.Tpi_samples, args.T_dopp)),
                 "criterion")
    /\ UNCHANGED <<X0, scale, X, entry, maxiter, pc, it, B, last, ret, result, exc, args>>

\* metric4, metric5, the weights and absolute_criterion
StepCriterion ==
    /\ lab_pc = "criterion"
    /\ LabAssign("absolute_criterion",
                 AbsoluteCriterion(loc.n0401, loc.n0501, loc.n0502_avg, args.metric_weights),
                 "relative")
    /\ UNCHANGED <<X0, scale, X, entry, maxiter, pc, it, B, last, ret, result, exc, args>>

\* relative_criterion, quality_factor and the returned dict
StepRelative ==
    /\ lab_pc = "relative"
    /\ LabAssign("quality_factor", QualityFactor(loc.absolute_criterion, args.P_baz), "done")
    /\ UNCHANGED <<X0, scale, X, entry, maxiter, pc, it, B, last, ret, result, exc, args>>

NextLab ==
    StepH0401 \/ StepTvMean \/ StepH0501 \/ StepH0502 \/ StepCriterion \/ StepRelative

SpecLab == InitLab /\ [][NextLab]_vars

----------------------------------------------------------------------------
(* Properties of the estimator *)

\* a non-empty sequence of strictly positive (finite) intervals
ValidInput == Len(X) >= 1 /\ \A i \in 1..Len(X) : IsFin(X[i]) /\ X[i].m > 0

\* solve_B_newton has returned its tuple
Returned == ret.iterations > 0

\* the float of n = len(X)
NofX == IntToFloat(Len(X))

\* largest magnitude, as a power of two, at which squares and products of the
\* intervals with B stay normal numbers
RangeExp == 400

\* C1: for a non-empty sequence of strictly positive intervals the solver runs at
\* most maxiter iterations and returns its tuple without raising an exception
C1_SolverReturns ==
    ValidInput => /\ it <= maxiter
                  /\ (pc = "raised" => Returned)

\* C2: a returned converged = True comes with one of the two stopping criteria:
\* |f(B_hat)| < tol at the returned B_hat, or a last step |B_new - B| < 1e-12
C2_ConvergedMeetsCriterion ==
    (Returned /\ ret.converged) =>
        \/ /\ IsFin(f_and_s2(X, ret.B).val)
           /\ FLt(FAbs(f_and_s2(X, ret.B).val), tol)
        \/ /\ ret.B = last.B_new
           /\ FLt(FAbs(FSub(last.B_new, last.B)), StepTol)

\* C2: a run that stopped on the step-size test
W_C2_StepStop ==
    /\ Returned /\ ret.converged /\ last.out = "step"
    /\ ~FLt(FAbs(f_and_s2(X, ret.B).val), tol)

\* C3: for valid input a converged result has B_hat > n
C3_ConvergedAboveN ==
    (ValidInput /\ Returned /\ ret.converged) => FLt(NofX, ret.B)

\* C3: a run on valid input that converged, after several iterations, to a B_hat
\* less than one above n
W_C3_ConvergedNearN ==
    /\ ValidInput /\ Returned /\ ret.converged /\ ret.iterations > 1
    /\ FLt(NofX, ret.B) /\ FLt(ret.B, FAdd(NofX, One))

\* C4: for valid input compute returns K_hat > 0 when converged and remaining > 0
C4_KHatPositive ==
    (ValidInput /\ pc = "done" /\ result.converged /\ FLt(Zero, result.remaining))
        => FLt(Zero, result.K_hat)

W_C4_KHatPositive ==
    /\ ValidInput /\ pc = "done" /\ result.converged /\ FLt(Zero, result.remaining)
    /\ result.iterations > 1 /\ IsFin(result.K_hat)

\* C5: the empty sequence is rejected with InvalidArgument and no iteration starts
C5_EmptyRejected ==
    Len(X) = 0 => /\ it = 0
                  /\ pc \notin {"returned", "done"}
                  /\ (pc = "raised" => exc = "InvalidArgument")

\* C6: a sequence with a zero or negative interval is rejected with InvalidArgument
\* before the first iteration, and no result is returned for it
C6_NonPositiveRejected ==
    (\E i \in 1..Len(X) : FLe(X[i], Zero)) =>
        /\ it = 0
        /\ pc \notin {"returned", "done"}
        /\ (pc = "raised" => exc = "InvalidArgument")

\* C7: when maxiter iterations pass without a stopping test holding, the solver
\* returns (the last B, maxiter, False) without raising, and compute returns a
\* record carrying converged = False
C7_NonConvergenceReturned ==
    /\ (pc = "loop" /\ it >= maxiter) => (ENABLED Exhausted /\ exc = "")
    /\ (Returned /\ last.out = "cont") => ~ret.converged
    /\ (Returned /\ ~ret.converged) =>
          /\ ret.iterations = maxiter /\ it = maxiter /\ ret.B = B
          /\ last.out = "cont" /\ ret.B = last.B_new
          /\ (entry = "compute" /\ pc # "returned") =>
                /\ pc = "done"
                /\ ~result.converged /\ result.iterations = maxiter /\ result.B_hat = ret.B

\* C7: compute returned a record for a valid input on which the solver used up
\* its iterations
W_C7_ComputeNotConverged ==
    ValidInput /\ entry = "compute" /\ pc = "done" /\ ~result.converged

\* C8: in a result of compute for valid input, X_next is the +inf sentinel exactly
\* when remaining <= 0, and otherwise equals 1 / (K_hat * remaining), a finite
\* positive number
C8_XNextSentinelOrPositive ==
    (ValidInput /\ pc = "done") =>
        /\ (result.X_next = PosInf) <=> FLe(result.remaining, Zero)
        /\ FLt(Zero, result.remaining) =>
              /\ result.X_next = FDiv(One, FMul(result.K_hat, result.remaining))
              /\ IsFin(result.X_next)
              /\ FLt(Zero, result.X_next)

\* ceil(a) of a positive finite float below 2^30
CeilOf(a) ==
    IF a.e >= 0 THEN a.m * 2 ^ a.e
    ELSE IF -a.e > 30 THEN 1
    ELSE (a.m + 2 ^ (-a.e) - 1) \div 2 ^ (-a.e)

\* m = max(n + 1, ceil(B_hat)) - n, the count of remaining defects floored at 1
RemainingCount(n, B_hat) ==
    (IF CeilOf(B_hat) > n + 1 THEN CeilOf(B_hat) ELSE n + 1) - n

\* H_m = sum of 1/k for k = 1..m
Harmonic(m) == FSum([k \in 1..m |-> FDiv(One, IntToFloat(k))])

\* the result of a converged run on valid input with at most HarmExact defects
\* remaining, so that the harmonic sums are the sums of their terms
SmallConverged ==
    /\ ValidInput /\ pc = "done" /\ result.converged
    /\ FLt(Zero, result.remaining)
    /\ FLt(result.remaining, IntToFloat(HarmExact))

\* C9 as stated: time_to_finish = H_m / K_hat with m = max(n+1, ceil(B_hat)) - n,
\* no logarithmic term entering the value
C9_HarmonicOnly ==
    SmallConverged =>
        result.time_to_finish =
            FDiv(Harmonic(RemainingCount(result.n, result.B_hat)), result.K_hat)

\* ln(B_hat / (B_hat - n)) of the result
LogTerm == FLog(FDiv(result.B_hat, FSub(result.B_hat, IntToFloat(result.n))))

\* C9, amended: when remaining > 0, time_to_finish is the larger of H_m and
\* ln(B_hat / (B_hat - n)), divided by K_hat, with m = int(remaining) (H_0 = 0, so
\* for remaining < 1 the value is the logarithmic term over K_hat); when
\* remaining <= 0 it is 0.0
C9_MaxOfHarmonicAndLog ==
    pc = "done" =>
        IF FLt(Zero, result.remaining)
        THEN /\ result.time_to_finish =
                   FDiv(FMax(HarmonicSum(result.remaining), LogTerm), result.K_hat)
             /\ SmallConverged =>
                   /\ HarmonicSum(result.remaining) = Harmonic(IntOf(result.remaining))
                   /\ FLe(FDiv(LogTerm, result.K_hat), result.time_to_finish)
                   /\ FLe(FDiv(Harmonic(IntOf(result.remaining)), result.K_hat),
                          result.time_to_finish)
                   /\ IntOf(result.remaining) = 0 =>
                          result.time_to_finish = FDiv(LogTerm, result.K_hat)
        ELSE result.time_to_finish = Zero

\* C9: a converged result with less than one defect remaining, whose
\* time_to_finish is the logarithmic term over K_hat and not H_1 / K_hat
W_C9_LogTermDecides ==
    /\ SmallConverged
    /\ IntOf(result.remaining) = 0
    /\ FLt(Zero, LogTerm)
    /\ result.time_to_finish = FDiv(LogTerm, result.K_hat)
    /\ result.time_to_finish # FDiv(Harmonic(1), result.K_hat)

\* the intervals before scaling, as floats
BaseX == [i \in 1..Len(X0) |-> IntToFloat(X0[i])]

\* the result res of compute(c * X) against the result base of compute(X)
ScaleAgrees(base, res, c) ==
    /\ base.exc = ""
    /\ res.B_hat = base.B_hat
    /\ res.iterations = base.iterations
    /\ res.converged = base.converged
    /\ res.K_hat = FDiv(base.K_hat, c)

PowerOfTwo(a) == IsFin(a) /\ a.m > 0 /\ a.m = 2 ^ (BitLen(a.m) - 1)

\* a positive float between 2^-RangeExp and 2^RangeExp
InRange(a) ==
    IsFin(a) /\ a.m > 0 /\ Abs(BitLen(a.m) + a.e - 1) < RangeExp

DenomAboutZero ==
    LET q == FDiv(NofX, KDenom(X, ret.B))
    IN  IsRaise(q) \/ IsInf(q) \/ IsNaN(q) \/ q = Zero

\* C11: for valid input, when the weighted sum that K_hat is divided by is about
\* zero, compute
\* reports DegenerateEstimate: it returns no record, and so no infinite, NaN or
\* otherwise unflagged K_hat, for that case
C11_DegenerateFlagged ==
    (/\ ValidInput /\ entry = "compute" /\ pc \in {"done", "raised"}
     /\ Returned /\ DenomAboutZero)
        => (pc = "raised" /\ exc = "DegenerateEstimate")

\* the arguments that compute_all accepts, with the default metric weights
LabAccepted ==
    /\ args.N > 0 /\ 0 <= args.Q /\ args.Q <= args.N
    /\ Len(args.Tv_samples) > 0 /\ \A i \in 1..Len(args.Tv_samples) : FLt(Zero, args.Tv_samples[i])
    /\ Len(args.Tpi_samples) > 0 /\ \A i \in 1..Len(args.Tpi_samples) : FLt(Zero, args.Tpi_samples[i])
    /\ FLt(Zero, args.T_dopV) /\ FLt(Zero, args.T_dopp) /\ FLt(Zero, args.P_baz)
    /\ args.metric_weights = <<>>

\* C12: for every accepted input of compute_all the returned quality factor lies
\* in [0, 1], and the scores H0401, H0501 and the averaged H0502 are at most 1
C12_ScoresWithinUnit ==
    (LabAccepted /\ lab_pc = "done") =>
        /\ FLe(Zero, loc.quality_factor) /\ FLe(loc.quality_factor, One)
        /\ FLe(loc.n0401, One) /\ FLe(loc.n0501, One) /\ FLe(loc.n0502_avg, One)

\* the latest iteration computed a derivative with |f'(B)| < 1e-16
NearZeroDerivative ==
    last.out \in {"cont", "step"} /\ IsFin(last.fp) /\ FLt(FAbs(last.fp), DerivFloor)

\* C13: in an iteration with |f'(B)| < 1e-16 the derivative used in the update has
\* magnitude 1e-16 and the sign of the computed f'(B), so that the candidate is
\* B - val / (sign * 1e-16)
C13_ClampKeepsSign ==
    NearZeroDerivative =>
        /\ FAbs(last.deriv) = DerivFloor
        /\ last.fp.m < 0 => last.deriv = FNeg(DerivFloor)
        /\ last.fp.m > 0 => last.deriv = DerivFloor
        /\ last.cand = FSub(last.B, FDiv(last.val, last.deriv))

\* the latest iteration replaced its Newton candidate: the candidate was <= n
GuardFired == last.out \in {"cont", "step"} /\ FLe(last.cand, NofX)

\* B > n at the start of every iteration and for every returned B
AboveN ==
    /\ pc = "loop" => FLt(NofX, B)
    /\ Returned => FLt(NofX, ret.B)

\* C14: a candidate B_new <= n is replaced by a value bisecting towards the
\* boundary, above n and never above the current B; B > n holds at the start of
\* every iteration and for every returned B
C14_GuardBisectsDownwards ==
    /\ AboveN
    /\ GuardFired => (FLt(NofX, last.B_new) /\ FLe(last.B_new, last.B))

=============================================================================
